---- MODULE Spec2Model ----
(***************************************************************************)
(* Float placement engine of buoyancy (src/src/exclusions.rs) together     *)
(* with the driver loop of src/src/test.rs.                                *)
(*                                                                         *)
(* The band store `SplayMap<Au, Band>` lives in src/map.rs, which is not   *)
(* part of the available sources.  It is modelled as the ordered map of    *)
(* the design document (section 4.1): a function from keys to bands, the   *)
(* key order being the integer order.  Tree shape (splaying) is not part   *)
(* of the band collection and is not represented.                          *)
(***************************************************************************)
EXTENDS Integers, Sequences, FiniteSets, TLC

\* exclusions.rs:21   const MAX_AU: Au = Au(i32::MAX);
MAX_AU == 2147483647

\* Bounds of the explored inputs.
MaxW == 2
MaxInline == 3
MaxBlock == 2
MaxAreas == 3
MaxCalls == 3

VARIABLES inline_size, bands, abort, areas, last, frame, calls

vars == <<inline_size, bands, abort, areas, last, frame, calls>>

Side == {"Left", "Right"}

Size(inline, block) == [inline |-> inline, block |-> block]

Point(inline, block) == [inline |-> inline, block |-> block]

Band(left, right, length) == [left |-> left, right |-> right, length |-> length]

Placement(origin, available_inline_size) ==
    [origin |-> origin, available_inline_size |-> available_inline_size]

\* Variant of available_size: the right inset is subtracted.
available_size_minus(band, W) == W + band.left - band.right

available_size(band, W) == W + band.left + band.right

get(band, side) == IF side = "Left" THEN band.left ELSE band.right

\* Variant of set: both sides write the left inset.
set_left(band, side, v) == [band EXCEPT !.left = v]

set(band, side, v) ==
    IF side = "Left" THEN [band EXCEPT !.left = v] ELSE [band EXCEPT !.right = v]

Min(a, b) == IF a <= b THEN a ELSE b

NoAbort == "none"

(***************************************************************************)
(* Ordered map (design document, section 4.1).  A search is driven by a    *)
(* three-way comparator; here the comparator is passed as the function     *)
(* ord from the keys of the map to its answers.  An absent result is the   *)
(* empty set, a found entry the singleton of its key.                      *)
(***************************************************************************)
insert(m, k, v) == [x \in (DOMAIN m) \cup {k} |-> IF x = k THEN v ELSE m[x]]

remove(m, k) == [x \in (DOMAIN m) \ {k} |-> m[x]]

\* The entry at which the comparator answers Equal.
get_with(m, ord) ==
    LET eq == {k \in DOMAIN m : ord[k] = "Equal"}
    IN  IF eq = {} THEN {} ELSE {CHOOSE k \in eq : \A j \in eq : k <= j}

\* The entry at which the comparator answers Equal, else the first entry
\* the target lies before (comparator Less); absent when the target lies
\* after every entry.
lower_bound_with(m, ord) ==
    LET ge == {k \in DOMAIN m : ord[k] # "Greater"}
    IN  IF ge = {} THEN {} ELSE {CHOOSE k \in ge : \A j \in ge : k <= j}

The(s) == CHOOSE x \in s : TRUE

(***************************************************************************)
(* exclusions.rs                                                           *)
(***************************************************************************)
\* Variant of compare_inline_size: the width is compared with the zone,
\* not with what the band leaves available.
compare_inline_size_zone(band_block_start, band, exclusion_size, W) ==
    IF exclusion_size.inline <= W THEN "Less"
    ELSE IF band_block_start + band.length = MAX_AU THEN "Equal"
    ELSE "Greater"

\* Variant of compare_inline_size: a band of exactly the width asked for
\* does not fit.
compare_inline_size_strict(band_block_start, band, exclusion_size, W) ==
    IF exclusion_size.inline < available_size(band, W) THEN "Less"
    ELSE IF band_block_start + band.length = MAX_AU THEN "Equal"
    ELSE "Greater"

\* Variant of compare_inline_size: the last band gets no special answer.
compare_inline_size_plain(band_block_start, band, exclusion_size, W) ==
    IF exclusion_size.inline <= available_size(band, W) THEN "Less"
    ELSE "Greater"

compare_inline_size(band_block_start, band, exclusion_size, W) ==
    IF exclusion_size.inline <= available_size(band, W) THEN "Less"
    ELSE IF band_block_start + band.length = MAX_AU THEN "Equal"
    ELSE "Greater"

new(W) == (0 :> Band(0, 0, MAX_AU))

\* Variant of place: the left inset is returned with its stored sign.
place_sign(m, W, alignment, size) ==
    LET found == lower_bound_with(m,
                     [k \in DOMAIN m |-> compare_inline_size(k, m[k], size, W)])
    IN  IF found = {}
        THEN [abort |-> "Exclusions::place(): Didn't find a band!", bands |-> m]
        ELSE LET block_position == The(found)
                 band == m[block_position]
                 inline_position ==
                     IF alignment = "Left" THEN band.left
                     ELSE W + band.right - size.inline
                 origin == Point(inline_position, block_position)
             IN  [abort |-> NoAbort, bands |-> m,
                  placement |-> Placement(origin, available_size(band, W))]

\* Variant of place: the search hands out the band mutably and the inset
\* of the chosen band is written, as exclude does.
place_mut(m, W, alignment, size) ==
    LET found == lower_bound_with(m,
                     [k \in DOMAIN m |-> compare_inline_size(k, m[k], size, W)])
    IN  IF found = {}
        THEN [abort |-> "Exclusions::place(): Didn't find a band!", bands |-> m]
        ELSE LET block_position == The(found)
                 band == m[block_position]
                 inline_position ==
                     IF alignment = "Left" THEN -band.left
                     ELSE W + band.right - size.inline
                 origin == Point(inline_position, block_position)
             IN  [abort |-> NoAbort, bands |-> [m EXCEPT ![block_position] = set(band, alignment, -size.inline)],
                  placement |-> Placement(origin, available_size(band, W))]

\* Exclusions::place; the result carries the band map after the call.
place(m, W, alignment, size) ==
    LET found == lower_bound_with(m,
                     [k \in DOMAIN m |-> compare_inline_size(k, m[k], size, W)])
    IN  IF found = {}
        THEN [abort |-> "Exclusions::place(): Didn't find a band!", bands |-> m]
        ELSE LET block_position == The(found)
                 band == m[block_position]
                 inline_position ==
                     IF alignment = "Left" THEN -band.left
                     ELSE W + band.right - size.inline
                 origin == Point(inline_position, block_position)
             IN  [abort |-> NoAbort, bands |-> m,
                  placement |-> Placement(origin, available_size(band, W))]

split_compare(block_position, band_block_position, band) ==
    IF block_position < band_block_position THEN "Less"
    ELSE IF block_position >= band_block_position + band.length THEN "Greater"
    ELSE "Equal"

\* Variant of split: the upper band is not shortened.
split_keep_upper(m, block_position) ==
    LET found == get_with(m,
                     [k \in DOMAIN m |-> split_compare(block_position, k, m[k])])
    IN  IF found = {}
        THEN [abort |-> "Exclusions::split(): Didn't find band to split!", bands |-> m]
        ELSE LET upper_block_position == The(found)
                 upper_band == m[upper_block_position]
                 floor == upper_block_position + upper_band.length
                 lower_band == Band(upper_band.left, upper_band.right,
                                    floor - block_position)
             IN  [abort |-> NoAbort, bands |-> insert(m, block_position, lower_band)]

\* Variant of split: the lower band starts with no insets.
split_fresh_lower(m, block_position) ==
    LET found == get_with(m,
                     [k \in DOMAIN m |-> split_compare(block_position, k, m[k])])
    IN  IF found = {}
        THEN [abort |-> "Exclusions::split(): Didn't find band to split!", bands |-> m]
        ELSE LET upper_block_position == The(found)
                 upper_band == m[upper_block_position]
                 floor == upper_block_position + upper_band.length
                 shrunk == [m EXCEPT ![upper_block_position].length =
                                         block_position - upper_block_position]
                 lower_band == Band(0, 0, floor - block_position)
             IN  [abort |-> NoAbort, bands |-> insert(shrunk, block_position, lower_band)]

\* Variant of split: the lower band is inserted first and the upper band
\* shortened afterwards.
split_shrink_last(m, block_position) ==
    LET found == get_with(m,
                     [k \in DOMAIN m |-> split_compare(block_position, k, m[k])])
    IN  IF found = {}
        THEN [abort |-> "Exclusions::split(): Didn't find band to split!", bands |-> m]
        ELSE LET upper_block_position == The(found)
                 upper_band == m[upper_block_position]
                 floor == upper_block_position + upper_band.length
                 lower_band == Band(upper_band.left, upper_band.right,
                                    floor - block_position)
                 inserted == insert(m, block_position, lower_band)
             IN  [abort |-> NoAbort,
                  bands |-> [inserted EXCEPT ![upper_block_position].length =
                                                 block_position - upper_block_position]]

\* Exclusions::split
split(m, block_position) ==
    LET found == get_with(m,
                     [k \in DOMAIN m |-> split_compare(block_position, k, m[k])])
    IN  IF found = {}
        THEN [abort |-> "Exclusions::split(): Didn't find band to split!", bands |-> m]
        ELSE LET upper_block_position == The(found)
                 upper_band == m[upper_block_position]
                 floor == upper_block_position + upper_band.length
                 shrunk == [m EXCEPT ![upper_block_position].length =
                                         block_position - upper_block_position]
                 lower_band == Band(upper_band.left, upper_band.right,
                                    floor - block_position)
             IN  [abort |-> NoAbort, bands |-> insert(shrunk, block_position, lower_band)]

exclude_compare(last_block_position, block_position, band) ==
    IF last_block_position <= block_position THEN "Less"
    ELSE IF last_block_position > block_position + band.length THEN "Greater"
    ELSE "Equal"

\* Variant of exclude_iter: the inset is stored without the sign change.
exclude_iter_unsigned(m, side, size, last_block_position, last_band) ==
    LET found == get_with(m,
                     [k \in DOMAIN m |-> exclude_compare(last_block_position, k, m[k])])
    IN  IF found = {}
        THEN [continue |-> FALSE, bands |-> m,
              last_block_position |-> last_block_position, last_band |-> last_band]
        ELSE LET block_position == The(found)
             IN  IF -get(m[block_position], side) <= size.inline
                 THEN LET extended == set(m[block_position], side, size.inline)
                          merge == /\ last_band # {}
                                   /\ extended.left = The(last_band).left
                                   /\ extended.right = The(last_band).right
                          band == IF merge
                                  THEN [extended EXCEPT !.length =
                                            extended.length + The(last_band).length]
                                  ELSE extended
                          written == [m EXCEPT ![block_position] = band]
                          after == IF merge THEN remove(written, last_block_position)
                                   ELSE written
                      IN  [continue |-> TRUE, bands |-> after,
                           last_block_position |-> block_position, last_band |-> {band}]
                 ELSE [continue |-> FALSE, bands |-> m,
                       last_block_position |-> last_block_position,
                       last_band |-> last_band]

\* Variant of exclude_iter: a band whose inset equals the width stops the walk.
exclude_iter_strict(m, side, size, last_block_position, last_band) ==
    LET found == get_with(m,
                     [k \in DOMAIN m |-> exclude_compare(last_block_position, k, m[k])])
    IN  IF found = {}
        THEN [continue |-> FALSE, bands |-> m,
              last_block_position |-> last_block_position, last_band |-> last_band]
        ELSE LET block_position == The(found)
             IN  IF -get(m[block_position], side) < size.inline
                 THEN LET extended == set(m[block_position], side, -size.inline)
                          merge == /\ last_band # {}
                                   /\ extended.left = The(last_band).left
                                   /\ extended.right = The(last_band).right
                          band == IF merge
                                  THEN [extended EXCEPT !.length =
                                            extended.length + The(last_band).length]
                                  ELSE extended
                          written == [m EXCEPT ![block_position] = band]
                          after == IF merge THEN remove(written, last_block_position)
                                   ELSE written
                      IN  [continue |-> TRUE, bands |-> after,
                           last_block_position |-> block_position, last_band |-> {band}]
                 ELSE [continue |-> FALSE, bands |-> m,
                       last_block_position |-> last_block_position,
                       last_band |-> last_band]

\* Variant of exclude_iter: the cursor is not moved to the band just handled.
exclude_iter_stuck(m, side, size, last_block_position, last_band) ==
    LET found == get_with(m,
                     [k \in DOMAIN m |-> exclude_compare(last_block_position, k, m[k])])
    IN  IF found = {}
        THEN [continue |-> FALSE, bands |-> m,
              last_block_position |-> last_block_position, last_band |-> last_band]
        ELSE LET block_position == The(found)
             IN  IF -get(m[block_position], side) <= size.inline
                 THEN LET extended == set(m[block_position], side, -size.inline)
                          merge == /\ last_band # {}
                                   /\ extended.left = The(last_band).left
                                   /\ extended.right = The(last_band).right
                          band == IF merge
                                  THEN [extended EXCEPT !.length =
                                            extended.length + The(last_band).length]
                                  ELSE extended
                          written == [m EXCEPT ![block_position] = band]
                          after == IF merge THEN remove(written, last_block_position)
                                   ELSE written
                      IN  [continue |-> TRUE, bands |-> after,
                           last_block_position |-> last_block_position,
                           last_band |-> last_band]
                 ELSE [continue |-> FALSE, bands |-> m,
                       last_block_position |-> last_block_position,
                       last_band |-> last_band]

\* Variant of exclude_iter: a band is extended whatever its inset.
exclude_iter_always(m, side, size, last_block_position, last_band) ==
    LET found == get_with(m,
                     [k \in DOMAIN m |-> exclude_compare(last_block_position, k, m[k])])
    IN  IF found = {}
        THEN [continue |-> FALSE, bands |-> m,
              last_block_position |-> last_block_position, last_band |-> last_band]
        ELSE LET block_position == The(found)
             IN  IF TRUE
                 THEN LET extended == set(m[block_position], side, -size.inline)
                          merge == /\ last_band # {}
                                   /\ extended.left = The(last_band).left
                                   /\ extended.right = The(last_band).right
                          band == IF merge
                                  THEN [extended EXCEPT !.length =
                                            extended.length + The(last_band).length]
                                  ELSE extended
                          written == [m EXCEPT ![block_position] = band]
                          after == IF merge THEN remove(written, last_block_position)
                                   ELSE written
                      IN  [continue |-> TRUE, bands |-> after,
                           last_block_position |-> block_position, last_band |-> {band}]
                 ELSE [continue |-> FALSE, bands |-> m,
                       last_block_position |-> last_block_position,
                       last_band |-> last_band]

\* One iteration of the loop of Exclusions::exclude, from the cursor
\* (last_block_position, last_band); last_band is {} for None.  continue
\* tells whether the loop goes on.
exclude_iter(m, side, size, last_block_position, last_band) ==
    LET found == get_with(m,
                     [k \in DOMAIN m |-> exclude_compare(last_block_position, k, m[k])])
    IN  IF found = {}
        THEN [continue |-> FALSE, bands |-> m,
              last_block_position |-> last_block_position, last_band |-> last_band]
        ELSE LET block_position == The(found)
             IN  IF -get(m[block_position], side) <= size.inline
                 THEN LET extended == set(m[block_position], side, -size.inline)
                          merge == /\ last_band # {}
                                   /\ extended.left = The(last_band).left
                                   /\ extended.right = The(last_band).right
                          band == IF merge
                                  THEN [extended EXCEPT !.length =
                                            extended.length + The(last_band).length]
                                  ELSE extended
                          written == [m EXCEPT ![block_position] = band]
                          after == IF merge THEN remove(written, last_block_position)
                                   ELSE written
                      IN  [continue |-> TRUE, bands |-> after,
                           last_block_position |-> block_position, last_band |-> {band}]
                 ELSE [continue |-> FALSE, bands |-> m,
                       last_block_position |-> last_block_position,
                       last_band |-> last_band]

\* The loop of Exclusions::exclude, run to its end.
RECURSIVE exclude_loop(_, _, _, _, _)
exclude_loop(m, side, size, last_block_position, last_band) ==
    LET r == exclude_iter(m, side, size, last_block_position, last_band)
    IN  IF r.continue
        THEN exclude_loop(r.bands, side, size, r.last_block_position, r.last_band)
        ELSE r.bands

\* Variant of exclude: only a zero block extent returns early.
exclude_block_only(m, side, size) ==
    IF size.block = 0
    THEN [abort |-> NoAbort, bands |-> m]
    ELSE LET s == split(m, size.block)
         IN  IF s.abort # NoAbort THEN s
             ELSE [abort |-> NoAbort,
                   bands |-> exclude_loop(s.bands, side, size, size.block, {})]

\* Variant of exclude: only the band just above size.block is extended.
exclude_one_band(m, side, size) ==
    IF size.inline = 0 \/ size.block = 0
    THEN [abort |-> NoAbort, bands |-> m]
    ELSE LET s == split(m, size.block)
         IN  IF s.abort # NoAbort THEN s
             ELSE [abort |-> NoAbort,
                   bands |-> exclude_iter(s.bands, side, size, size.block, {}).bands]

\* Variant of exclude: the band holding size.block is not split first.
exclude_no_split(m, side, size) ==
    IF size.inline = 0 \/ size.block = 0
    THEN [abort |-> NoAbort, bands |-> m]
    ELSE [abort |-> NoAbort,
          bands |-> exclude_loop(m, side, size, size.block, {})]

\* Exclusions::exclude
exclude(m, side, size) ==
    IF size.inline = 0 \/ size.block = 0
    THEN [abort |-> NoAbort, bands |-> m]
    ELSE LET s == split(m, size.block)
         IN  IF s.abort # NoAbort THEN s
             ELSE [abort |-> NoAbort,
                   bands |-> exclude_loop(s.bands, side, size, size.block, {})]

(***************************************************************************)
(* test.rs                                                                 *)
(***************************************************************************)
Exclusion(side, size) == [side |-> side, size |-> size]

ExcludedArea(exclusion, origin) == [exclusion |-> exclusion, origin |-> origin]

\* ExcludedArea::intersects
intersects(this, other) ==
    LET this_left == this.origin.inline
        other_left == other.origin.inline
        this_right == this_left + this.exclusion.size.inline
        other_right == other_left + other.exclusion.size.inline
        this_top == this.origin.block
        other_top == other.origin.block
        this_bottom == this_top + this.exclusion.size.block
        other_bottom == other_top + other.exclusion.size.block
    IN  IF \/ (this_left <= other_left /\ this_right <= other_left)
           \/ (this_left >= other_left /\ this_left >= other_right)
        THEN FALSE
        ELSE IF \/ (this_top <= other_top /\ this_bottom <= other_top)
                \/ (this_top >= other_top /\ this_bottom >= other_bottom)
             THEN FALSE
             ELSE TRUE

\* Variant of drive: the inline size is not clamped to the zone.
drive_unclamped(m, W, side, size) ==
    LET clamped == size
        p == place(m, W, side, clamped)
    IN  IF p.abort # NoAbort THEN [abort |-> p.abort, bands |-> p.bands]
        ELSE LET origin == p.placement.origin
                 exclusion_inline_size ==
                     IF side = "Left" THEN origin.inline + clamped.inline
                     ELSE W - origin.inline
                 e == exclude(p.bands, side,
                              Size(exclusion_inline_size, origin.block + clamped.block))
             IN  [abort |-> e.abort, bands |-> e.bands,
                  area |-> ExcludedArea(Exclusion(side, clamped), origin)]

\* Variant of drive: the block extent handed to exclude is the size of the
\* exclusion, not its bottom.
drive_relative(m, W, side, size) ==
    LET clamped == Size(Min(size.inline, W), size.block)
        p == place(m, W, side, clamped)
    IN  IF p.abort # NoAbort THEN [abort |-> p.abort, bands |-> p.bands]
        ELSE LET origin == p.placement.origin
                 exclusion_inline_size ==
                     IF side = "Left" THEN origin.inline + clamped.inline
                     ELSE W - origin.inline
                 e == exclude(p.bands, side,
                              Size(exclusion_inline_size, clamped.block))
             IN  [abort |-> e.abort, bands |-> e.bands,
                  area |-> ExcludedArea(Exclusion(side, clamped), origin)]

\* One iteration of the loop of test::place over the exclusion
\* (side, size): clamp, place, exclude, push.
drive(m, W, side, size) ==
    LET clamped == Size(Min(size.inline, W), size.block)
        p == place(m, W, side, clamped)
    IN  IF p.abort # NoAbort THEN [abort |-> p.abort, bands |-> p.bands]
        ELSE LET origin == p.placement.origin
                 exclusion_inline_size ==
                     IF side = "Left" THEN origin.inline + clamped.inline
                     ELSE W - origin.inline
                 e == exclude(p.bands, side,
                              Size(exclusion_inline_size, origin.block + clamped.block))
             IN  [abort |-> e.abort, bands |-> e.bands,
                  area |-> ExcludedArea(Exclusion(side, clamped), origin)]

(***************************************************************************)
(* State machine                                                           *)
(***************************************************************************)
Widths == 0 .. MaxW
Inlines == 0 .. MaxInline
Blocks == 0 .. MaxBlock
\* Block extents handed to exclude directly: small ones and the largest
\* extent the precondition size.block < MAX allows.
ExcludeBlocks == Blocks \cup {MAX_AU - 1}

\* No call of exclude is under way.
Idle == [pc |-> "idle"]

Init ==
    /\ inline_size \in Widths
    /\ bands = new(inline_size)
    /\ abort = NoAbort
    /\ areas = << >>
    /\ last = [op |-> "new"]
    /\ frame = Idle
    /\ calls = << >>

Place(alignment, size) ==
    /\ abort = NoAbort
    /\ LET p == place(bands, inline_size, alignment, size)
       IN  /\ bands' = p.bands
           /\ abort' = p.abort
           /\ last' = IF p.abort = NoAbort
                      THEN [op |-> "place", side |-> alignment, size |-> size,
                            placement |-> p.placement]
                      ELSE [op |-> "abort"]
    /\ UNCHANGED <<inline_size, areas, frame, calls>>

Exclude(side, size) ==
    /\ abort = NoAbort
    /\ LET e == exclude(bands, side, size)
       IN  /\ bands' = e.bands
           /\ abort' = e.abort
           /\ last' = IF e.abort = NoAbort
                      THEN [op |-> "exclude",
                            zero |-> (size.inline = 0 \/ size.block = 0)]
                      ELSE [op |-> "abort"]
    /\ UNCHANGED <<inline_size, areas, frame, calls>>

Drive(side, size) ==
    /\ abort = NoAbort
    /\ Len(areas) < MaxAreas
    /\ LET d == drive(bands, inline_size, side, size)
       IN  /\ bands' = d.bands
           /\ abort' = d.abort
           /\ areas' = IF d.abort = NoAbort THEN Append(areas, d.area) ELSE areas
           /\ last' = IF d.abort = NoAbort
                      THEN [op |-> "drive", side |-> side, size |-> size]
                      ELSE [op |-> "abort"]
    /\ UNCHANGED <<inline_size, frame, calls>>

\* place reads size.inline only, so one block extent is enough.
PlaceStep == \E a \in Side, i \in Inlines : Place(a, Size(i, 0))

ExcludeStep == \E s \in Side, i \in Inlines, b \in ExcludeBlocks : Exclude(s, Size(i, b))

DriveStep == \E s \in Side, i \in Inlines, b \in Blocks : Drive(s, Size(i, b))

\* The engine under arbitrary calls respecting the preconditions.
Next == PlaceStep \/ ExcludeStep

Spec == Init /\ [][Next]_vars

\* The engine under the driver of test.rs.
NextDriver == DriveStep

SpecDriver == Init /\ [][NextDriver]_vars

\* exclude taken one step at a time: the call itself (early return, or
\* split and the initial cursor), then one loop iteration per step.  pre
\* keeps the bands the call started from; last is left to the calls taken
\* as a whole.
ExcludeCall(side, size) ==
    /\ abort = NoAbort
    /\ frame.pc = "idle"
    /\ IF size.inline = 0 \/ size.block = 0
       THEN UNCHANGED <<bands, abort, last, frame>>
       ELSE LET s == split(bands, size.block)
            IN  /\ bands' = s.bands
                /\ abort' = s.abort
                /\ last' = IF s.abort = NoAbort THEN last ELSE [op |-> "abort"]
                /\ frame' = IF s.abort = NoAbort
                            THEN [pc |-> "loop", side |-> side, size |-> size,
                                  last_block_position |-> size.block,
                                  last_band |-> {}, pre |-> bands]
                            ELSE frame
    /\ UNCHANGED <<inline_size, areas, calls>>

ExcludeLoop ==
    /\ abort = NoAbort
    /\ frame.pc = "loop"
    /\ LET r == exclude_iter(bands, frame.side, frame.size,
                             frame.last_block_position, frame.last_band)
       IN  /\ bands' = r.bands
           /\ frame' = IF r.continue
                       THEN [frame EXCEPT !.last_block_position = r.last_block_position,
                                          !.last_band = r.last_band]
                       ELSE Idle
    /\ UNCHANGED <<inline_size, abort, areas, last, calls>>

ExcludeCallStep ==
    \E s \in Side, i \in Inlines, b \in ExcludeBlocks : ExcludeCall(s, Size(i, b))

NextSteps == ExcludeCallStep \/ ExcludeLoop

\* exclude does not read inline_size, so one zone width is enough.
InitSteps ==
    /\ inline_size = MaxW
    /\ bands = new(inline_size)
    /\ abort = NoAbort
    /\ areas = << >>
    /\ last = [op |-> "new"]
    /\ frame = Idle
    /\ calls = << >>

SpecSteps == InitSteps /\ [][NextSteps]_vars

\* A call of exclude that has started keeps running.
SpecStepsFair == SpecSteps /\ WF_vars(ExcludeLoop)

\* exclude with the calls made so far kept in calls, for runs of at most
\* MaxCalls calls.
ExcludeLogged(side, size) ==
    /\ abort = NoAbort
    /\ Len(calls) < MaxCalls
    /\ LET e == exclude(bands, side, size)
       IN  /\ bands' = e.bands
           /\ abort' = e.abort
           /\ calls' = IF e.abort = NoAbort
                       THEN Append(calls, [side |-> side, size |-> size])
                       ELSE calls
    /\ UNCHANGED <<inline_size, areas, last, frame>>

ExcludeLoggedStep ==
    \E s \in Side, i \in Inlines, b \in ExcludeBlocks : ExcludeLogged(s, Size(i, b))

NextLogged == ExcludeLoggedStep

SpecLogged == InitSteps /\ [][NextLogged]_vars

\* The driver on the zone and the sizes of the scenarios of the design
\* document (section 8, S2 to S6).
ScenarioInlines == {30, 40, 50, 60}

ScenarioBlocks == {10, 20}

InitScenario ==
    /\ inline_size = 100
    /\ bands = new(inline_size)
    /\ abort = NoAbort
    /\ areas = << >>
    /\ last = [op |-> "new"]
    /\ frame = Idle
    /\ calls = << >>

ScenarioStep ==
    \E s \in Side, i \in ScenarioInlines, b \in ScenarioBlocks : Drive(s, Size(i, b))

NextScenario == ScenarioStep

SpecScenario == InitScenario /\ [][NextScenario]_vars

(***************************************************************************)
(* Properties                                                              *)
(***************************************************************************)
Max(a, b) == IF a >= b THEN a ELSE b

AreaLeft(a) == a.origin.inline
AreaRight(a) == a.origin.inline + a.exclusion.size.inline
AreaTop(a) == a.origin.block
AreaBottom(a) == a.origin.block + a.exclusion.size.block

\* The half-open rectangles of a and b share a point.
Overlap(a, b) ==
    /\ Max(AreaLeft(a), AreaLeft(b)) < Min(AreaRight(a), AreaRight(b))
    /\ Max(AreaTop(a), AreaTop(b)) < Min(AreaBottom(a), AreaBottom(b))

Pairs == {p \in (1 .. Len(areas)) \X (1 .. Len(areas)) : p[1] < p[2]}

\* The band that ends at MAX_AU.
Sentinels == {k \in DOMAIN bands : k + bands[k].length = MAX_AU}

Fitting(inline) ==
    {k \in DOMAIN bands : inline_size + bands[k].left + bands[k].right >= inline}

Least(s) == CHOOSE k \in s : \A j \in s : k <= j

\* No call aborts in the runs explored (the driver's or the direct ones).
NeverAborts == abort = NoAbort

\* C1: areas placed by the driver never overlap: for every pair (a, b)
\* with a placed before b, the rectangles [origin, origin+size) of a and b
\* do not intersect in both axes; the assertion of check_overlap holds too.
C1_NoOverlap ==
    \A p \in Pairs :
        /\ ~Overlap(areas[p[1]], areas[p[2]])
        /\ ~intersects(areas[p[1]], areas[p[2]])

\* Two areas of positive size share rows and are kept apart horizontally,
\* one on each side.
C1_Witness ==
    \E p \in Pairs :
        LET a == areas[p[1]]
            b == areas[p[2]]
        IN  /\ a.exclusion.size.inline > 0 /\ b.exclusion.size.inline > 0
            /\ Max(AreaTop(a), AreaTop(b)) < Min(AreaBottom(a), AreaBottom(b))
            /\ a.exclusion.side # b.exclusion.side
            /\ Len(areas) >= 3

\* C2: no overflow: every area placed by the driver has origin.block >= 0,
\* origin.inline >= 0 and origin.inline + size.inline <= W.
C2_NoOverflow ==
    \A i \in 1 .. Len(areas) :
        /\ areas[i].origin.block >= 0
        /\ areas[i].origin.inline >= 0
        /\ areas[i].origin.inline + areas[i].exclusion.size.inline <= inline_size

\* An exclusion wider than the zone was clamped and placed below an
\* earlier area.
C2_Witness ==
    /\ last.op = "drive"
    /\ last.size.inline > inline_size
    /\ inline_size > 0
    /\ Len(areas) >= 2
    /\ areas[Len(areas)].origin.block > 0

\* C3: left stacking rule: of two left areas a (earlier) and b (later),
\* b starts right of a's right edge or at or below a's bottom.
C3_LeftStacking ==
    \A p \in Pairs :
        LET a == areas[p[1]]
            b == areas[p[2]]
        IN  (a.exclusion.side = "Left" /\ b.exclusion.side = "Left") =>
                \/ b.origin.inline >= a.origin.inline + a.exclusion.size.inline
                \/ b.origin.block >= a.origin.block + a.exclusion.size.block

\* A later left area stands beside an earlier left one: right of it, and
\* starting above its bottom.
C3_Witness ==
    \E p \in Pairs :
        LET a == areas[p[1]]
            b == areas[p[2]]
        IN  /\ a.exclusion.side = "Left" /\ b.exclusion.side = "Left"
            /\ a.exclusion.size.inline > 0 /\ b.exclusion.size.inline > 0
            /\ b.origin.inline >= AreaRight(a)
            /\ b.origin.block < AreaBottom(a)

\* C4: right stacking rule: of two right areas a (earlier) and b (later),
\* b ends left of a's left edge or starts at or below a's bottom.
C4_RightStacking ==
    \A p \in Pairs :
        LET a == areas[p[1]]
            b == areas[p[2]]
        IN  (a.exclusion.side = "Right" /\ b.exclusion.side = "Right") =>
                \/ b.origin.inline + b.exclusion.size.inline <= a.origin.inline
                \/ b.origin.block >= a.origin.block + a.exclusion.size.block

\* A later right area stands beside an earlier right one: left of it, and
\* starting above its bottom.
C4_Witness ==
    \E p \in Pairs :
        LET a == areas[p[1]]
            b == areas[p[2]]
        IN  /\ a.exclusion.side = "Right" /\ b.exclusion.side = "Right"
            /\ a.exclusion.size.inline > 0 /\ b.exclusion.size.inline > 0
            /\ AreaRight(b) <= a.origin.inline
            /\ b.origin.block < AreaBottom(a)

\* C5: vertical packing: every area placed by the driver below block 0
\* starts at the bottom of an area placed earlier.
C5_VerticalPacking ==
    \A i \in 1 .. Len(areas) :
        areas[i].origin.block > 0 =>
            \E j \in 1 .. (i - 1) : areas[i].origin.block = AreaBottom(areas[j])

\* The third area starts below block 0, at a bottom that is not the
\* bottom of the area placed just before it.
C5_Witness ==
    /\ Len(areas) >= 3
    /\ areas[3].origin.block > 0
    /\ areas[3].origin.block # AreaBottom(areas[2])
    /\ areas[3].origin.block = AreaBottom(areas[1])

\* C6: place selects the first band whose available size W + left + right
\* is >= size.inline, or the band ending at MAX_AU if no band fits;
\* origin.block is the start of that band.
C6_FirstFit ==
    last.op = "place" =>
        LET fit == Fitting(last.size.inline)
        IN  /\ fit # {} => last.placement.origin.block = Least(fit)
            /\ fit = {} => last.placement.origin.block \in Sentinels

\* place skipped a band that is too narrow and chose a fitting band that
\* is not the last one.
C6_Witness ==
    /\ last.op = "place"
    /\ last.placement.origin.block > 0
    /\ last.placement.origin.block \notin Sentinels
    /\ last.placement.origin.block \in Fitting(last.size.inline)

\* C7: for the band chosen by place, with insets (L, R): origin.inline is
\* -L on the left and W + R - size.inline on the right, and
\* available_inline_size is W + L + R.
C7_Origin ==
    last.op = "place" =>
        LET band == bands[last.placement.origin.block]
        IN  /\ last.side = "Left" => last.placement.origin.inline = -band.left
            /\ last.side = "Right" =>
                   last.placement.origin.inline =
                       inline_size + band.right - last.size.inline
            /\ last.placement.available_inline_size =
                   inline_size + band.left + band.right

\* place on the right chose a band below block 0 that has a right inset.
C7_Witness ==
    /\ last.op = "place"
    /\ last.side = "Right"
    /\ last.size.inline > 0
    /\ last.placement.origin.block > 0
    /\ bands[last.placement.origin.block].right < 0

\* C8: a call to place leaves the band collection (keys, left, right,
\* length) as it was.
C8_PlaceKeepsBands == [][last'.op = "place" => bands' = bands]_vars

\* place was called on a zone of at least three bands.
C8_Witness == last.op = "place" /\ Cardinality(DOMAIN bands) >= 3

\* C9: exclude with size.inline = 0 or size.block = 0 leaves the band
\* collection as it was.
C9_ZeroExcludeNoop ==
    [][(last'.op = "exclude" /\ last'.zero) => bands' = bands]_vars

\* exclude was called with a zero extent on a zone of at least two bands.
C9_Witness == last.op = "exclude" /\ last.zero /\ Cardinality(DOMAIN bands) >= 2

\* C10: band coverage: key 0 is present, every band has a positive length
\* and ends where the next band starts or at MAX_AU, with no key in
\* between, so the bands cover [0, MAX_AU) without gap or overlap.
C10_Coverage ==
    /\ 0 \in DOMAIN bands
    /\ \A k \in DOMAIN bands :
           /\ k >= 0
           /\ bands[k].length > 0
           /\ k + bands[k].length \in (DOMAIN bands) \cup {MAX_AU}
           /\ \A j \in DOMAIN bands : ~(k < j /\ j < k + bands[k].length)
    /\ Cardinality(Sentinels) = 1

\* exclude has cut the zone into at least four bands, the last one
\* starting at MAX_AU - 1.
C10_Witness ==
    /\ last.op = "exclude"
    /\ Cardinality(DOMAIN bands) >= 4
    /\ (MAX_AU - 1) \in DOMAIN bands

Keys == DOMAIN bands

\* j and k are the keys of two bands that follow each other.
Adjacent(j, k) == j \in Keys /\ k \in Keys /\ j < k /\ ~\E x \in Keys : j < x /\ x < k

\* C11: after every operation no two adjacent bands have the same
\* (left, right) pair.
C11_NoAdjacentEqual ==
    \A j, k \in Keys :
        Adjacent(j, k) =>
            ~(bands[j].left = bands[k].left /\ bands[j].right = bands[k].right)

\* C12: every band has left <= 0 and right <= 0.
C12_InsetsNonPositive ==
    \A k \in Keys : bands[k].left <= 0 /\ bands[k].right <= 0

\* exclude has given some band an inset on each side.
C12_Witness ==
    /\ last.op = "exclude"
    /\ \E k \in Keys : bands[k].left < 0 /\ bands[k].right < 0
    /\ \E k \in Keys : bands[k].left < 0 /\ bands[k].right = 0

\* C13: no call aborts: the search of place always returns a band and the
\* search of split always finds the band holding the split position.
C13_NoAbort == abort = NoAbort /\ last.op # "abort"

\* place was asked for a width no band offers and answered with the last
\* band, on a zone that split has cut several times.
C13_Witness ==
    /\ last.op = "place"
    /\ Fitting(last.size.inline) = {}
    /\ last.placement.origin.block \in Sentinels
    /\ Cardinality(Keys) >= 3

\* C16: the available size never decreases with the block position, so a
\* width that fits a band fits every band below it.
C16_Monotone ==
    \A j, k \in Keys :
        j < k => available_size(bands[j], inline_size) <= available_size(bands[k], inline_size)

\* Three bands of strictly growing available size, narrowed from both
\* sides.
C16_Witness ==
    \E i, j, k \in Keys :
        /\ i < j /\ j < k
        /\ available_size(bands[i], inline_size) < available_size(bands[j], inline_size)
        /\ available_size(bands[j], inline_size) < available_size(bands[k], inline_size)
        /\ bands[i].left < 0 /\ bands[i].right < 0

\* The exclusions the driver has handled, and the origins it returned.
Handled == [i \in 1 .. Len(areas) |-> areas[i].exclusion]

Origins == [i \in 1 .. Len(areas) |-> areas[i].origin]

S6 == << Exclusion("Right", Size(50, 10)), Exclusion("Right", Size(50, 10)),
         Exclusion("Right", Size(50, 10)) >>

S2 == << Exclusion("Left", Size(30, 20)) >>

\* C14 as stated: S6 yields origins (50,0), (50,10), (50,20) and a single
\* band (0, -50, 30) above the last band.
C14_S6_AsStated ==
    (inline_size = 100 /\ Handled = S6) =>
        /\ Origins = << Point(50, 0), Point(50, 10), Point(50, 20) >>
        /\ bands = (0 :> Band(0, -50, 30)) @@ (30 :> Band(0, 0, MAX_AU - 30))

\* C14, amended: with W = 100 the three exclusions (Right, 50x10) get the
\* origins (50,0), (0,0), (50,10): the second fits beside the first.  The
\* bands are then {0: (0,-100,10), 10: (0,-50,10), 20: (0,0,MAX_AU-20)};
\* none are merged.
C14_S6 ==
    (inline_size = 100 /\ Handled = S6) =>
        /\ Origins = << Point(50, 0), Point(0, 0), Point(50, 10) >>
        /\ bands = (0 :> Band(0, -100, 10)) @@ (10 :> Band(0, -50, 10))
                       @@ (20 :> Band(0, 0, MAX_AU - 20))

\* The driver has run S6.
C14_Witness == inline_size = 100 /\ Handled = S6 /\ abort = NoAbort

\* C15 as stated: S2 yields origin (0,0) and the bands
\* {0: (-30, 0, 20), 20: (0, 0, MAX_AU)}.
C15_S2_AsStated ==
    (inline_size = 100 /\ Handled = S2) =>
        /\ Origins = << Point(0, 0) >>
        /\ bands = (0 :> Band(-30, 0, 20)) @@ (20 :> Band(0, 0, MAX_AU))

\* C15, amended: with W = 100 the exclusion (Left, 30x20) gets the origin
\* (0,0), and the bands are then {0: (-30, 0, 20), 20: (0, 0, MAX_AU-20)}.
C15_S2 ==
    (inline_size = 100 /\ Handled = S2) =>
        /\ Origins = << Point(0, 0) >>
        /\ bands = (0 :> Band(-30, 0, 20)) @@ (20 :> Band(0, 0, MAX_AU - 20))

\* The driver has run S2.
C15_Witness == inline_size = 100 /\ Handled = S2 /\ abort = NoAbort

\* split has just run for the call under way; no loop iteration yet.
JustSplit == frame.pc = "loop" /\ frame.last_band = {}

\* The keys of the bands of m that hold position strictly inside.
Inside(m, position) ==
    {p \in DOMAIN m : p < position /\ position < p + m[p].length}

\* C17: split at a position strictly inside the band at p, with upper end
\* floor, leaves that band at p with length position - p, adds a band at
\* position with the same (left, right) and length floor - position, and
\* leaves every other band as it was; after the split of exclude
\* size.block is a key and no band above it reaches past it.
C17_Split ==
    JustSplit =>
        LET position == frame.size.block
            pre == frame.pre
        IN  /\ \A p \in Inside(pre, position) :
                   /\ DOMAIN bands = (DOMAIN pre) \cup {position}
                   /\ bands[p] = [pre[p] EXCEPT !.length = position - p]
                   /\ bands[position] = Band(pre[p].left, pre[p].right,
                                             p + pre[p].length - position)
                   /\ \A k \in (DOMAIN pre) \ {p} : bands[k] = pre[k]
            /\ position \in DOMAIN bands
            /\ \A k \in DOMAIN bands : k < position => k + bands[k].length <= position

\* split has cut a band with insets that is not the last one.
C17_Witness ==
    /\ JustSplit
    /\ \E p \in Inside(frame.pre, frame.size.block) :
           /\ p + frame.pre[p].length < MAX_AU
           /\ frame.pre[p].left < 0
           /\ p > 0

\* C18: split at a position that is already a key leaves the band map as
\* it was before the call, and no band of length 0 remains.
C18_SplitAtKey ==
    (JustSplit /\ frame.size.block \in DOMAIN frame.pre) =>
        /\ bands = frame.pre
        /\ \A k \in DOMAIN bands : bands[k].length # 0

\* split was called at the start of a band other than the last one.
C18_Witness ==
    /\ JustSplit
    /\ frame.size.block \in DOMAIN frame.pre
    /\ frame.size.block + frame.pre[frame.size.block].length < MAX_AU

\* The band the next loop iteration of the call under way looks at.
Found ==
    get_with(bands, [k \in DOMAIN bands |->
                        exclude_compare(frame.last_block_position, k, bands[k])])

Magnitude(band, side) == -get(band, side)

\* C19: when the walk of exclude stops at a band it found, that band and
\* every band above it have an inset on side greater than size.inline;
\* and when exclude returns, every band within [0, size.block) has an
\* inset on side of at least size.inline.
C19_EarlyStop ==
    [][(frame.pc = "loop" /\ frame'.pc = "idle") =>
           /\ Found # {} =>
                  \A k \in DOMAIN bands :
                      k <= The(Found) =>
                          Magnitude(bands[k], frame.side) > frame.size.inline
           /\ \A k \in DOMAIN bands' :
                  k < frame.size.block =>
                      Magnitude(bands'[k], frame.side) >= frame.size.inline]_vars

\* The walk has extended a band and is about to stop at a band that has
\* another band above it.
C19_Witness ==
    /\ frame.pc = "loop"
    /\ frame.last_band # {}
    /\ Found # {}
    /\ Magnitude(bands[The(Found)], frame.side) > frame.size.inline
    /\ The(Found) > 0

\* C20: every call of exclude returns: a loop iteration that goes on moves
\* the cursor to a strictly smaller band start, the search finds nothing
\* only with the cursor at block 0, and the loop ends.
C20_Terminates ==
    /\ [][(frame.pc = "loop" /\ frame'.pc = "loop") =>
              /\ frame'.last_block_position < frame.last_block_position
              /\ frame'.last_block_position \in DOMAIN bands']_vars
    /\ []((frame.pc = "loop" /\ Found = {}) => frame.last_block_position = 0)
    /\ []<>(frame.pc = "idle")

\* The walk has handled two bands and reached block 0.
C20_Witness ==
    /\ frame.pc = "loop"
    /\ frame.last_band # {}
    /\ frame.last_block_position = 0
    /\ Found = {}
    /\ Cardinality({k \in DOMAIN frame.pre : k < frame.size.block}) >= 2

\* C22: the band that ends at MAX_AU has left = 0 and right = 0, so it
\* offers the whole width W: every width up to W fits some band, and the
\* comparator never answers Equal for such a width.
C22_SentinelEmpty ==
    /\ Sentinels # {}
    /\ \A k \in Sentinels :
           /\ bands[k].left = 0
           /\ bands[k].right = 0
           /\ available_size(bands[k], inline_size) = inline_size
    /\ \A i \in 0 .. inline_size :
           /\ Fitting(i) # {}
           /\ \A k \in Keys :
                  compare_inline_size(k, bands[k], Size(i, 0), inline_size) # "Equal"

\* exclude has narrowed the zone from both sides right up to the band
\* that ends at MAX_AU, which is one unit long.
C22_Witness ==
    /\ last.op = "exclude"
    /\ inline_size > 0
    /\ (MAX_AU - 1) \in Sentinels
    /\ \E k \in Keys :
           /\ k + bands[k].length = MAX_AU - 1
           /\ bands[k].left < 0
           /\ bands[k].right < 0

\* The key of the band of the current map that holds block position y.
BandAt(y) == CHOOSE k \in Keys : k <= y /\ y < k + bands[k].length

\* The calls of exclude made so far, on side, that were not no-ops and
\* reach below y.
Reaching(side, y) ==
    {i \in 1 .. Len(calls) :
        /\ calls[i].side = side
        /\ calls[i].size.inline # 0
        /\ calls[i].size.block > y}

\* The largest size.inline among them, 0 if there is none.
Demanded(side, y) ==
    IF Reaching(side, y) = {} THEN 0
    ELSE LET i == CHOOSE i \in Reaching(side, y) :
                      \A j \in Reaching(side, y) :
                          calls[j].size.inline <= calls[i].size.inline
         IN  calls[i].size.inline

\* Block positions on both sides of every extent exclude is called with.
Positions == (0 .. MaxBlock) \cup {MAX_AU - 2, MAX_AU - 1}

\* C21: for each side and each block position y, the inset of the band
\* holding y is the largest size.inline of the calls of exclude on that
\* side, not no-ops, with size.block > y, and 0 if there is none.
C21_Silhouette ==
    \A side \in Side, y \in Positions :
        Magnitude(bands[BandAt(y)], side) = Demanded(side, y)

\* Three calls on the same side, the widest one shortest and made second:
\* the first inset was raised above the second extent, the third call
\* stopped early.
C21_Witness ==
    /\ Len(calls) >= 3
    /\ calls[1].side = calls[2].side /\ calls[2].side = calls[3].side
    /\ calls[1].size.inline > 0
    /\ calls[1].size.inline < calls[3].size.inline
    /\ calls[3].size.inline < calls[2].size.inline
    /\ 0 < calls[2].size.block
    /\ calls[2].size.block < calls[3].size.block
    /\ calls[3].size.block < calls[1].size.block

====
